---- MODULE Spec2Model ----
(***************************************************************************)
(* Model of the conversational orchestrator of the Kiwi chatbot page       *)
(* (frontend/src/pages/ChatbotPage.tsx): the transcript `messages`, the    *)
(* typed `input`, the React state `loading`, the mutable cell `loadingRef` *)
(* used as dispatch gate, the async function sendMessage with its          *)
(* suspension point at the text collaborator call, the voice callback      *)
(* onTranscription, and the effect that copies `loading` into the gate.    *)
(*                                                                         *)
(* Texts are sequences of tokens; the token " " is whitespace.             *)
(* React applies functional setMessages updaters in call order, so the     *)
(* transcript is modelled as the result of the updaters applied so far.    *)
(* setLoading is different: the effect of lines 90-92 depends on the value *)
(* `loading` had at the last commit, so the committed value (`loading`)    *)
(* and the latest value set (`loadingNext`) are separate variables, and    *)
(* the passive effect is a step of its own (React 18 runs passive effects  *)
(* of a non-discrete render in a later scheduler task).                    *)
(***************************************************************************)
EXTENDS Integers, Sequences, FiniteSets, TLC

VARIABLES
    messages,       \* useState<Message[]>: the transcript
    input,          \* useState(''): the typed text
    loading,        \* useState(false): value of `loading` at the last commit
    loadingNext,    \* latest value given to setLoading (not yet rendered if # loading)
    loadingRef,     \* useRef(false).current: the dispatch gate
    effectPending,  \* the effect of lines 90-92 is scheduled and has not run
    sessionId,      \* useState(() => `session-${Date.now()}`)
    calls,          \* the calls made to chatbotApi.sendMessage, each with the state of
                    \* its promise and the transcript at the time sendMessage was entered
    voiceStatus,    \* useVoiceChat().status: idle, connecting, ready or error
    voiceError,     \* useVoiceChat().error: the message of the last failure, or none
    voiceSession,   \* the session token the open voice channel was started with
    lastOp          \* history: the send, voice utterance or completion that ran last
                    \* (if the last step was one), its argument, whether it left the
                    \* component's state as it was

voiceVars == <<voiceStatus, voiceError, voiceSession>>

vars == <<messages, input, loading, loadingNext, loadingRef, effectPending,
          sessionId, calls, voiceStatus, voiceError, voiceSession, lastOp>>

-----------------------------------------------------------------------------
(* Bounds *)

MaxDispatch == 3    \* accepted dispatches in one behaviour
MaxTurns == 3       \* voice assistant utterances grow the transcript up to this length

-----------------------------------------------------------------------------
(* Values *)

Space == " "

GREETING == <<"Bonjour">>

FAILURE_TEXT == <<"Desole">>

RawTexts == { <<Space>>, <<Space, "a", Space>> }

ReplyTexts == { <<"r">> }

SourceLists == { <<[label |-> "Policy", url |-> "https://x/4"]>> }

VoiceAssistantTexts == { <<"r">>, FAILURE_TEXT }

SessionIds == { "session-1" }

VoiceErrors == { <<"Connexion">> }

NoError == <<>>

NoSession == "none"

-----------------------------------------------------------------------------
(* Pure functions *)

RECURSIVE trimStart(_)
trimStart(t) ==
    IF t # <<>> /\ Head(t) = Space THEN trimStart(Tail(t)) ELSE t

RECURSIVE trimEnd(_)
trimEnd(t) ==
    IF t # <<>> /\ t[Len(t)] = Space THEN trimEnd(SubSeq(t, 1, Len(t) - 1)) ELSE t

trim(t) == trimEnd(trimStart(t))

\* the new turn put at the head of the transcript instead of its end
appendMessage_prepend(prev, role, content) ==
    IF /\ Len(prev) > 0
       /\ prev[Len(prev)].role = role
       /\ prev[Len(prev)].content = content
    THEN prev
    ELSE <<[role |-> role, content |-> content]>> \o prev

\* appendMessage comparing the new turn against every turn of the transcript
appendMessage_dedupAnywhere(prev, role, content) ==
    IF \E i \in 1..Len(prev) :
          prev[i].role = role /\ prev[i].content = content
    THEN prev
    ELSE Append(prev, [role |-> role, content |-> content])

\* appendMessage giving every turn it appends an empty list of sources
appendMessage_withSources(prev, role, content) ==
    IF /\ Len(prev) > 0
       /\ prev[Len(prev)].role = role
       /\ prev[Len(prev)].content = content
    THEN prev
    ELSE Append(prev, [role |-> role, content |-> content, sources |-> <<>>])

\* appendMessage without the comparison against the last turn
appendMessage_noDedup(prev, role, content) ==
    Append(prev, [role |-> role, content |-> content])

appendMessage(prev, role, content) ==
    IF /\ Len(prev) > 0
       /\ prev[Len(prev)].role = role
       /\ prev[Len(prev)].content = content
    THEN prev
    ELSE Append(prev, [role |-> role, content |-> content])

-----------------------------------------------------------------------------
(* The component's state as one record, and the handlers as functions on it *)

st == [messages |-> messages, input |-> input, loadingNext |-> loadingNext,
       loadingRef |-> loadingRef, sessionId |-> sessionId, calls |-> calls]

\* sendMessage whose early return tests the gate only, not the trimmed text
sendMessage_noBlankCheck(s, messageText) ==
    LET trimmed == trim(messageText) IN
    IF s.loadingRef
    THEN s
    ELSE [s EXCEPT
            !.input = <<>>,
            !.messages = appendMessage(@, "user", trimmed),
            !.loadingRef = TRUE,
            !.loadingNext = TRUE,
            !.calls = Append(@, [message |-> trimmed,
                                 sessionId |-> s.sessionId,
                                 status |-> "pending",
                                 result |-> <<>>,
                                 promise |-> "pending",
                                 before |-> s.messages])]

\* sendMessage passing a token made for the call instead of the session's
sendMessage_freshToken(s, messageText) ==
    LET trimmed == trim(messageText) IN
    IF trimmed = <<>> \/ s.loadingRef
    THEN s
    ELSE [s EXCEPT
            !.input = <<>>,
            !.messages = appendMessage(@, "user", trimmed),
            !.loadingRef = TRUE,
            !.loadingNext = TRUE,
            !.calls = Append(@, [message |-> trimmed,
                                 sessionId |-> "session-fresh",
                                 status |-> "pending",
                                 result |-> <<>>,
                                 promise |-> "pending",
                                 before |-> s.messages])]

\* sendMessage whose early return passes through the release of the gate
sendMessage_releaseOnReturn(s, messageText) ==
    LET trimmed == trim(messageText) IN
    IF trimmed = <<>> \/ s.loadingRef
    THEN [s EXCEPT !.loadingRef = FALSE, !.loadingNext = FALSE]
    ELSE [s EXCEPT
            !.input = <<>>,
            !.messages = appendMessage(@, "user", trimmed),
            !.loadingRef = TRUE,
            !.loadingNext = TRUE,
            !.calls = Append(@, [message |-> trimmed,
                                 sessionId |-> s.sessionId,
                                 status |-> "pending",
                                 result |-> <<>>,
                                 promise |-> "pending",
                                 before |-> s.messages])]

\* sendMessage passing the text as given, not trimmed, to the collaborator
sendMessage_untrimmedCall(s, messageText) ==
    LET trimmed == trim(messageText) IN
    IF trimmed = <<>> \/ s.loadingRef
    THEN s
    ELSE [s EXCEPT
            !.input = <<>>,
            !.messages = appendMessage(@, "user", trimmed),
            !.loadingRef = TRUE,
            !.loadingNext = TRUE,
            !.calls = Append(@, [message |-> messageText,
                                 sessionId |-> s.sessionId,
                                 status |-> "pending",
                                 result |-> <<>>,
                                 promise |-> "pending",
                                 before |-> s.messages])]

\* sendMessage up to its suspension point at `await chatbotApi.sendMessage`
sendMessage(s, messageText) ==
    LET trimmed == trim(messageText) IN
    IF trimmed = <<>> \/ s.loadingRef
    THEN s
    ELSE [s EXCEPT
            !.input = <<>>,
            !.messages = appendMessage(@, "user", trimmed),
            !.loadingRef = TRUE,
            !.loadingNext = TRUE,
            !.calls = Append(@, [message |-> trimmed,
                                 sessionId |-> s.sessionId,
                                 status |-> "pending",
                                 result |-> <<>>,
                                 promise |-> "pending",
                                 before |-> s.messages])]

\* the success path appending the reply through appendMessage, without sources
sendMessageResolved_noSources(s, d, response) ==
    [s EXCEPT
        !.messages = appendMessage(@, "assistant", response.response),
        !.loadingRef = FALSE,
        !.loadingNext = FALSE,
        !.calls[d].status = "resolved",
        !.calls[d].result = <<response>>,
        !.calls[d].promise = "fulfilled"]

\* the success path with the comparison against the last turn applied to the
\* reply
sendMessageResolved_dedup(s, d, response) ==
    [s EXCEPT
        !.messages = IF /\ Len(@) > 0
                        /\ @[Len(@)].role = "assistant"
                        /\ @[Len(@)].content = response.response
                     THEN @
                     ELSE Append(@, [role |-> "assistant",
                                     content |-> response.response,
                                     sources |-> response.sources]),
        !.loadingRef = FALSE,
        !.loadingNext = FALSE,
        !.calls[d].status = "resolved",
        !.calls[d].result = <<response>>,
        !.calls[d].promise = "fulfilled"]

\* sendMessage resumed after the await resolved with `response`, then finally
sendMessageResolved(s, d, response) ==
    [s EXCEPT
        !.messages = Append(@, [role |-> "assistant",
                                content |-> response.response,
                                sources |-> response.sources]),
        !.loadingRef = FALSE,
        !.loadingNext = FALSE,
        !.calls[d].status = "resolved",
        !.calls[d].result = <<response>>,
        !.calls[d].promise = "fulfilled"]

\* the catch path appending the failure turn without the dedup check
sendMessageRejected_noDedup(s, d) ==
    [s EXCEPT
        !.messages = Append(@, [role |-> "assistant", content |-> FAILURE_TEXT]),
        !.loadingRef = FALSE,
        !.loadingNext = FALSE,
        !.calls[d].status = "rejected",
        !.calls[d].promise = "fulfilled"]

\* the gate released at the end of the try block instead of in finally
sendMessageRejected_noRelease(s, d) ==
    [s EXCEPT
        !.messages = appendMessage(@, "assistant", FAILURE_TEXT),
        !.calls[d].status = "rejected",
        !.calls[d].promise = "fulfilled"]

\* a catch block that throws the error again: no failure turn, and the
\* promise of sendMessage rejects after finally has run
sendMessageRejected_rethrow(s, d) ==
    [s EXCEPT
        !.loadingRef = FALSE,
        !.loadingNext = FALSE,
        !.calls[d].status = "rejected",
        !.calls[d].promise = "rejected"]

\* sendMessage resumed after the await rejected: catch, then finally
sendMessageRejected(s, d) ==
    [s EXCEPT
        !.messages = appendMessage(@, "assistant", FAILURE_TEXT),
        !.loadingRef = FALSE,
        !.loadingNext = FALSE,
        !.calls[d].status = "rejected",
        !.calls[d].promise = "fulfilled"]

handleSend(s) == sendMessage(s, s.input)

\* onTranscription appending every utterance, user utterances included
onTranscription_appendOnly(s, role, text) ==
    [s EXCEPT !.messages = appendMessage(@, role, text)]

\* onTranscription sending every utterance, assistant utterances included
onTranscription_dispatchAll(s, role, text) == sendMessage(s, text)

onTranscription(s, role, text) ==
    IF role = "user"
    THEN sendMessage(s, text)
    ELSE [s EXCEPT !.messages = appendMessage(@, role, text)]

-----------------------------------------------------------------------------
(* The voice session controller (hooks/useVoiceChat): its state as a       *)
(* record, start, stop and the signals of the voice transport              *)

voice == [status |-> voiceStatus, error |-> voiceError, session |-> voiceSession]

\* start() reporting an active channel at once, without passing through
\* connecting
startVoice_skipConnecting(v, token) ==
    IF v.status \in {"idle", "error"}
    THEN [status |-> "ready", error |-> NoError, session |-> token]
    ELSE v

startVoice(v, token) ==
    IF v.status \in {"idle", "error"}
    THEN [status |-> "connecting", error |-> NoError, session |-> token]
    ELSE v

\* stop() tearing the channel down from every state
stopVoice_fromAnyState(v) ==
    [status |-> "idle", error |-> NoError, session |-> NoSession]

stopVoice(v) ==
    IF v.status \in {"connecting", "ready"}
    THEN [status |-> "idle", error |-> NoError, session |-> NoSession]
    ELSE v

\* the voice transport confirms an active channel
voiceConnected(v) ==
    IF v.status = "connecting" THEN [v EXCEPT !.status = "ready"] ELSE v

\* a failure signal that keeps the status and records the message only
voiceFailed_keepStatus(v, message) ==
    IF v.status \in {"connecting", "ready"}
    THEN [v EXCEPT !.error = message]
    ELSE v

\* the voice transport signals a failure
voiceFailed(v, message) ==
    IF v.status \in {"connecting", "ready"}
    THEN [status |-> "error", error |-> message, session |-> NoSession]
    ELSE v

\* voiceActive true for the ready status only
voiceActive_readyOnly(v) == v.status = "ready"

\* const voiceActive = voiceStatus === 'ready' || voiceStatus === 'connecting'
voiceActive(v) == v.status = "ready" \/ v.status = "connecting"

\* onClick={voiceActive ? stopVoice : startVoice}
toggleVoice(v, token) ==
    IF voiceActive(v) THEN stopVoice(v) ELSE startVoice(v, token)

-----------------------------------------------------------------------------
(* Derived notions *)

InFlight == { d \in 1..Len(calls) : calls[d].status = "pending" }

Accepts(s, messageText) == trim(messageText) # <<>> /\ ~s.loadingRef

Op(op, text, d, noop) == [op |-> op, text |-> text, d |-> d, noop |-> noop]

\* the value of lastOp after a step that is neither a send, a voice utterance,
\* the completion of a call nor a step of the voice session controller
Other == Op("other", <<>>, 0, FALSE)

Commit(s) ==
    /\ messages' = s.messages
    /\ input' = s.input
    /\ loadingNext' = s.loadingNext
    /\ loadingRef' = s.loadingRef
    /\ calls' = s.calls
    /\ UNCHANGED <<loading, effectPending, sessionId>>
    /\ UNCHANGED voiceVars

\* a step of the voice session controller: the component's own state stays;
\* lastOp records the status the step started from
DoVoice(v, op) ==
    /\ voiceStatus' = v.status
    /\ voiceError' = v.error
    /\ voiceSession' = v.session
    /\ lastOp' = Op(op, <<voiceStatus>>, 0, v = voice)
    /\ UNCHANGED <<messages, input, loading, loadingNext, loadingRef, effectPending,
                   sessionId, calls>>

Do(s, op, text, d) ==
    /\ Commit(s)
    /\ lastOp' = Op(op, text, d, s = st)

-----------------------------------------------------------------------------
(* Initial state: the component is mounted, its mount effects have run *)

Init ==
    /\ messages = <<[role |-> "assistant", content |-> GREETING]>>
    /\ input = <<>>
    /\ loading = FALSE
    /\ loadingNext = FALSE
    /\ loadingRef = FALSE
    /\ effectPending = FALSE
    /\ sessionId \in SessionIds
    /\ calls = <<>>
    /\ voiceStatus = "idle"
    /\ voiceError = NoError
    /\ voiceSession = NoSession
    /\ lastOp = Other

-----------------------------------------------------------------------------
(* Actions *)

\* onChange of the input field (disabled while `loading` is rendered true), or
\* a click on a suggested question (rendered while the transcript has one turn)
TypeInput ==
    \E t \in RawTexts :
        /\ ~loading \/ Len(messages) = 1
        /\ input' = t
        /\ lastOp' = Other
        /\ UNCHANGED <<messages, loading, loadingNext, loadingRef, effectPending,
                       sessionId, calls>>
        /\ UNCHANGED voiceVars

\* the presentation layer calls sendText: handleSend -> sendMessage(input)
SendText ==
    /\ Accepts(st, input) => Len(calls) < MaxDispatch
    /\ Do(handleSend(st), "sendText", input, 0)

\* the voice hook delivers a finalized user utterance (while ready)
VoiceUser ==
    \E t \in RawTexts :
        /\ voiceStatus = "ready"
        /\ Accepts(st, t) => Len(calls) < MaxDispatch
        /\ Do(onTranscription(st, "user", t), "voiceUser", t, 0)

\* the voice hook delivers a finalized assistant utterance (while ready)
VoiceAssistant ==
    \E t \in VoiceAssistantTexts :
        /\ voiceStatus = "ready"
        /\ \/ Len(messages) < MaxTurns
           \/ appendMessage(messages, "assistant", t) = messages
        /\ Do(onTranscription(st, "assistant", t), "voiceAssistant", t, 0)

\* the promise of call d resolves with a response
Resolve ==
    \E d \in InFlight, r \in ReplyTexts, src \in SourceLists :
        /\ Do(sendMessageResolved(st, d, [response |-> r, sources |-> src]),
              "resolve", <<>>, d)

\* the promise of call d rejects
Reject ==
    \E d \in InFlight :
        /\ Do(sendMessageRejected(st, d), "reject", <<>>, d)

\* useEffect(() => { loadingRef.current = loading }, [loading])
RunEffect ==
    /\ effectPending
    /\ loadingRef' = loading
    /\ effectPending' = FALSE
    /\ lastOp' = Other
    /\ UNCHANGED <<messages, input, loading, loadingNext, sessionId, calls>>
    /\ UNCHANGED voiceVars

\* React renders the pending setLoading: pending passive effects are flushed
\* first, `loading` takes its new value, and since the dependency [loading]
\* changed the effect is scheduled again
Render ==
    /\ loadingNext # loading
    /\ loadingRef' = IF effectPending THEN loading ELSE loadingRef
    /\ loading' = loadingNext
    /\ effectPending' = TRUE
    /\ lastOp' = Other
    /\ UNCHANGED <<messages, input, loadingNext, sessionId, calls>>
    /\ UNCHANGED voiceVars

\* a click on the microphone button that also resets the dispatch gate
ToggleVoice_releasingGate ==
    /\ voiceStatus' = toggleVoice(voice, sessionId).status
    /\ voiceError' = toggleVoice(voice, sessionId).error
    /\ voiceSession' = toggleVoice(voice, sessionId).session
    /\ loadingRef' = FALSE
    /\ lastOp' = Op("toggleVoice", <<voiceStatus>>, 0, FALSE)
    /\ UNCHANGED <<messages, input, loading, loadingNext, effectPending,
                   sessionId, calls>>

\* a click on the microphone button, the only caller of startVoice and stopVoice
ToggleVoice == DoVoice(toggleVoice(voice, sessionId), "toggleVoice")

\* the voice transport reports the channel active
VoiceConnected ==
    /\ voiceStatus = "connecting"
    /\ DoVoice(voiceConnected(voice), "voiceConnected")

\* the voice transport reports a failure of the channel it is opening or holds
VoiceFailed ==
    \E m \in VoiceErrors :
        /\ voiceStatus \in {"connecting", "ready"}
        /\ DoVoice(voiceFailed(voice, m), "voiceFailed")

Next ==
    \/ TypeInput
    \/ SendText
    \/ VoiceUser
    \/ VoiceAssistant
    \/ Resolve
    \/ Reject
    \/ RunEffect
    \/ Render
    \/ ToggleVoice
    \/ VoiceConnected
    \/ VoiceFailed

Spec == Init /\ [][Next]_vars

-----------------------------------------------------------------------------
(* Notions used by the properties *)

Last(m) == m[Len(m)]

IsPrefix(a, b) == Len(a) <= Len(b) /\ SubSeq(b, 1, Len(a)) = a

LastIs(m, role, content) ==
    Len(m) > 0 /\ Last(m).role = role /\ Last(m).content = content

UserTurn(d) == [role |-> "user", content |-> calls[d].message]

\* the calls whose promise settles in this step
Settling == { d \in InFlight : calls'[d].status # "pending" }

\* a call was made in this step
Accepted == Len(calls') = Len(calls) + 1

-----------------------------------------------------------------------------
(* C1: in every reachable state at most one text dispatch is in flight     *)
(* (between gate acquisition and gate release), whatever the interleaving  *)
(* of sends, voice user utterances, completions and render/effect steps.   *)

C1_AtMostOneInFlight == Cardinality(InFlight) <= 1

(* C2: a sendText call made while an earlier call's promise has not        *)
(* resolved is not dispatched: it appends no turn and calls the            *)
(* collaborator not at all.                                                *)

C2_SendWhileInFlightDropped ==
    [][lastOp'.op = "sendText" /\ InFlight # {}
         => messages' = messages /\ calls' = calls]_vars

(* C3: every accepted dispatch appends exactly one user turn when it is    *)
(* accepted and exactly one assistant turn when its collaborator call      *)
(* settles, whatever voice events are interleaved.                         *)

C3_OneUserOneAssistantTurn ==
    [][/\ Accepted =>
            messages' = Append(messages, [role |-> "user",
                                          content |-> Last(calls').message])
       /\ \A d \in Settling :
            /\ Len(messages') = Len(messages) + 1
            /\ Last(messages').role = "assistant"]_vars

(* C4 as stated: when the collaborator call of a dispatch succeeds, the    *)
(* transcript is the transcript at acceptance extended by exactly two      *)
(* turns: the user turn with the sent text, then the assistant turn with   *)
(* the returned response and sources.                                      *)

StartsWithAcceptance(d, m) ==
    IF LastIs(calls[d].before, "user", calls[d].message)
    THEN IsPrefix(calls[d].before, m)
    ELSE IsPrefix(Append(calls[d].before, UserTurn(d)), m)

(* C4 amended: when the collaborator call of a dispatch succeeds, the      *)
(* transcript at completion is the transcript just before completion       *)
(* extended by one assistant turn with the returned response and sources;  *)
(* it starts with the transcript at acceptance followed by the user turn   *)
(* with the trimmed text (not repeated when the preceding turn is that     *)
(* same user turn); turns accepted while the dispatch was in flight lie    *)
(* between the user turn and the reply.                                    *)

C6_GateReleased ==
    [][Settling # {} =>
          /\ loadingRef' = FALSE
          /\ \A t \in RawTexts : trim(t) # <<>> =>
                Len(handleSend([st' EXCEPT !.input = t]).calls) = Len(calls') + 1]_vars

C6_Witness ==
    /\ Len(calls) >= 2
    /\ calls[1].status = "rejected"
    /\ calls[2].status = "resolved"
    /\ ~loadingRef
    /\ lastOp.op = "resolve"

(* C7: sendText with input that is empty after trimming changes nothing:   *)
(* no turn is appended, no collaborator call is made, the gate keeps its   *)
(* value.                                                                  *)

C7_BlankSendNoOp ==
    [][lastOp'.op = "sendText" /\ trim(lastOp'.text) = <<>> =>
          /\ messages' = messages
          /\ calls' = calls
          /\ loadingRef' = loadingRef
          /\ loadingNext' = loadingNext]_vars

C7_Witness ==
    /\ lastOp.op = "sendText"
    /\ lastOp.text = <<Space>>
    /\ lastOp.noop
    /\ ~loadingRef
    /\ Len(messages) > 1

(* C8: a voice user utterance delivered while a dispatch is in flight is   *)
(* dropped: it appends no turn and makes no collaborator call.             *)

C8_VoiceUserWhileInFlightDropped ==
    [][lastOp'.op = "voiceUser" /\ InFlight # {}
         => messages' = messages /\ calls' = calls]_vars

(* C9: append(role, content) leaves the transcript unchanged when the last *)
(* turn has the same role and content and otherwise adds one turn, so a    *)
(* finalized voice assistant utterance delivered again right after itself  *)
(* does not grow the transcript.                                           *)

C9_AppendIdempotent ==
    [][lastOp'.op = "voiceAssistant" =>
          /\ LastIs(messages, "assistant", lastOp'.text) => messages' = messages
          /\ ~LastIs(messages, "assistant", lastOp'.text) =>
                messages' = Append(messages, [role |-> "assistant",
                                              content |-> lastOp'.text])
          /\ lastOp.op = "voiceAssistant" /\ lastOp.text = lastOp'.text =>
                messages' = messages]_vars

C9_Witness ==
    /\ lastOp.op = "voiceAssistant"
    /\ lastOp.noop
    /\ LastIs(messages, "assistant", lastOp.text)
    /\ Len(messages) > 1

(* C10: a voice user utterance with text t delivered while no dispatch is  *)
(* in flight has the effect of sendText(t) in that state: the same gate    *)
(* value, transcript, collaborator call (text and session token), and the  *)
(* input is cleared when the utterance is accepted.                        *)

C10_VoiceUserAsTyped ==
    [][lastOp'.op = "voiceUser" /\ InFlight = {} =>
          LET typed == handleSend([st EXCEPT !.input = lastOp'.text]) IN
          /\ messages' = typed.messages
          /\ calls' = typed.calls
          /\ loadingRef' = typed.loadingRef
          /\ loadingNext' = typed.loadingNext
          /\ Accepts(st, lastOp'.text) => input' = typed.input]_vars

C10_Witness ==
    /\ lastOp.op = "voiceUser"
    /\ ~lastOp.noop
    /\ InFlight = {Len(calls)}
    /\ Last(calls).message = trim(lastOp.text)
    /\ Last(messages) = [role |-> "user", content |-> <<"a">>]

(* C11: a voice assistant utterance goes only through the deduplicating    *)
(* append: it makes no collaborator call, leaves the gate, the loading     *)
(* state and the typed input as they are, and is appended (unless it       *)
(* repeats the last turn) also while a dispatch is in flight.              *)

C11_VoiceAssistantBypassesDispatcher ==
    [][lastOp'.op = "voiceAssistant" =>
          /\ calls' = calls
          /\ loadingRef' = loadingRef
          /\ loadingNext' = loadingNext
          /\ input' = input
          /\ LastIs(messages', "assistant", lastOp'.text)
          /\ \/ messages' = messages
             \/ messages' = Append(messages, [role |-> "assistant",
                                              content |-> lastOp'.text])]_vars

C11_Witness ==
    /\ lastOp.op = "voiceAssistant"
    /\ ~lastOp.noop
    /\ InFlight # {}
    /\ loadingRef
    /\ Len(messages) = Len(calls[1].before) + 2

(* C12: stopping the voice session does not cancel a dispatch: the step    *)
(* that takes the voice status from connecting or ready to idle leaves the *)
(* transcript, the calls, the gate and the loading state as they are, and  *)
(* a call that settles afterwards, whatever the voice status, appends its  *)
(* assistant turn (or finds the failure turn already last) and releases    *)
(* the gate.                                                               *)

ListedEdges ==
    { <<"idle", "connecting">>, <<"connecting", "ready">>,
      <<"connecting", "error">>, <<"ready", "idle">>,
      <<"ready", "error">>, <<"error", "connecting">> }

\* C13 as stated: every change of the voice status follows one of the six
\* listed edges.  Violated: stop() while connecting (the toggle button calls
\* stopVoice while the status is connecting) takes connecting to idle.
C13_OnlyListedEdges ==
    [][voiceStatus' # voiceStatus =>
          <<voiceStatus, voiceStatus'>> \in ListedEdges]_vars

\* C13 amended: every change of the voice status follows one of the six listed
\* edges or the edge connecting -> idle taken by stop(); no other change of
\* the status ever occurs.
C13_StatusEdges ==
    [][voiceStatus' # voiceStatus =>
          <<voiceStatus, voiceStatus'>> \in
                ListedEdges \cup { <<"connecting", "idle">> }]_vars

\* a stop taken while connecting has left the status idle
C13_Witness ==
    /\ lastOp.op = "toggleVoice"
    /\ lastOp.text = <<"connecting">>
    /\ voiceStatus = "idle"

\* ---------------------------------------------------------------------------
\* the voice session after its channel has been torn down
TornDown == [status |-> "idle", error |-> NoError, session |-> NoSession]

\* C14: stop() while the status is connecting or ready tears the channel down
\* and leaves the status idle (the toggle button is the caller, and a press
\* while the session is active is a stop); stop() while the status is idle or
\* error changes nothing.
C14_StopFromActiveOnly ==
    /\ lastOp.op = "toggleVoice" /\ lastOp.text[1] \in {"connecting", "ready"}
          => voice = TornDown
    /\ voiceActive(voice) =>
          stopVoice(voice) = TornDown /\ toggleVoice(voice, sessionId) = TornDown
    /\ voiceStatus \in {"idle", "error"} => stopVoice(voice) = voice

\* a stop has been taken while ready and has torn the channel down
C14_Witness ==
    /\ lastOp.op = "toggleVoice"
    /\ lastOp.text = <<"ready">>
    /\ voiceStatus = "idle"
    /\ voiceSession = NoSession

\* ---------------------------------------------------------------------------
\* C15: a channel failure while the status is ready or connecting moves the
\* status to error with the supplied message, and the status leaves error
\* only by an explicit start() (a press of the toggle button), which takes it
\* to connecting.
C15_FailureStaysError ==
    [][/\ lastOp'.op = "voiceFailed" =>
              /\ voiceStatus \in {"connecting", "ready"}
              /\ voiceStatus' = "error"
              /\ voiceError' \in VoiceErrors
       /\ voiceStatus = "error" =>
              /\ voiceError \in VoiceErrors
              /\ \/ voice' = voice
                 \/ /\ lastOp'.op = "toggleVoice"
                    /\ voiceStatus' = "connecting"]_vars

\* a failure while ready has left the status error with its message, with a
\* dispatch still in flight
C15_Witness ==
    /\ lastOp.op = "voiceFailed"
    /\ lastOp.text = <<"ready">>
    /\ voiceStatus = "error"
    /\ voiceError \in VoiceErrors
    /\ InFlight # {}

\* ---------------------------------------------------------------------------
\* C16: the transcript is append-only: across every step the transcript before
\* the step is a prefix of the transcript after it, so no turn is removed,
\* reordered or changed in role, content or sources.
C16_AppendOnly ==
    [][IsPrefix(messages, messages')]_vars

\* two dispatches have completed, the first by a reply carrying sources and
\* the second by a failure, and every earlier turn is still in its place
C16_Witness ==
    /\ lastOp.op = "reject"
    /\ lastOp.d = 2
    /\ Len(messages) >= 5
    /\ messages[1] = [role |-> "assistant", content |-> GREETING]
    /\ calls[1].status = "resolved"
    /\ \E i \in 2..(Len(messages) - 1) :
          /\ "sources" \in DOMAIN messages[i]
          /\ messages[i].content = calls[1].result[1].response
    /\ Last(messages) = [role |-> "assistant", content |-> FAILURE_TEXT]

\* ---------------------------------------------------------------------------
\* C17: no failure leaves the component: the promise returned by sendMessage
\* is never rejected and is fulfilled as soon as the collaborator call has
\* settled, a failed call is visible as a failure turn placed after the
\* transcript the call was accepted on, and a failed voice channel is visible
\* as the error status with its message.
C17_NoFailurePropagates ==
    /\ \A d \in 1..Len(calls) :
          /\ calls[d].promise \in {"pending", "fulfilled"}
          /\ calls[d].promise = "pending" <=> calls[d].status = "pending"
          /\ calls[d].status = "rejected" =>
                \E i \in (Len(calls[d].before) + 1)..Len(messages) :
                    messages[i] = [role |-> "assistant", content |-> FAILURE_TEXT]
    /\ lastOp.op = "voiceFailed" =>
          voiceStatus = "error" /\ voiceError \in VoiceErrors

\* a collaborator call has just failed: its promise is fulfilled and the
\* failure turn is the last turn, while the voice channel has failed too
C17_Witness ==
    /\ lastOp.op = "reject"
    /\ calls[lastOp.d].status = "rejected"
    /\ calls[lastOp.d].promise = "fulfilled"
    /\ Last(messages) = [role |-> "assistant", content |-> FAILURE_TEXT]
    /\ voiceStatus = "error"

\* ---------------------------------------------------------------------------
\* C18: the session token never changes, every call of the text collaborator
\* carries it, and so does the voice session whenever one is open.
C18_OneSessionToken ==
    [][/\ sessionId' = sessionId
       /\ sessionId \in SessionIds
       /\ \A d \in 1..Len(calls') : calls'[d].sessionId = sessionId
       /\ voiceSession' # NoSession => voiceSession' = sessionId]_vars

\* two calls of the text collaborator have been made and a voice session is
\* open, all with the token of the component
C18_Witness ==
    /\ Len(calls) >= 2
    /\ \A d \in 1..Len(calls) : calls[d].sessionId = sessionId
    /\ voiceStatus = "ready"
    /\ voiceSession = sessionId

\* ---------------------------------------------------------------------------
\* C19: the gate is true in exactly the states in which a dispatch is in
\* flight, and a step that is not the acceptance or the completion of a
\* dispatch leaves the gate as it is.  Violated: the effect that copies the
\* rendered loading state into the gate cell writes a value rendered before
\* the latest acceptance or completion.
C19_GateIffInFlight ==
    [][/\ loadingRef <=> InFlight # {}
       /\ loadingRef' # loadingRef =>
              lastOp'.op \in {"sendText", "voiceUser", "resolve", "reject"}]_vars

\* ---------------------------------------------------------------------------
\* C20: the reply of a successful call is appended as a new assistant turn
\* whatever the last turn is: when the last turn already is an assistant turn
\* with the content of the reply, the transcript still grows by one and ends
\* with two assistant turns of that content.
C20_ReplyNeverDeduplicated ==
    [][\A d \in Settling :
          calls'[d].status = "resolved" =>
              LET reply == calls'[d].result[1].response IN
              /\ Len(messages') = Len(messages) + 1
              /\ LastIs(messages', "assistant", reply)
              /\ LastIs(messages, "assistant", reply) =>
                    /\ messages'[Len(messages') - 1].role = "assistant"
                    /\ messages'[Len(messages') - 1].content = reply]_vars

\* a voice assistant utterance with the content of the reply was delivered
\* while the call was in flight, and the reply has been appended after it
C20_Witness ==
    /\ lastOp.op = "resolve"
    /\ Len(messages) >= 3
    /\ messages[Len(messages) - 1] =
          [role |-> "assistant", content |-> calls[lastOp.d].result[1].response]
    /\ Last(messages).role = "assistant"
    /\ Last(messages).content = calls[lastOp.d].result[1].response
    /\ "sources" \in DOMAIN Last(messages)

\* ---------------------------------------------------------------------------
\* the roles and the contents appendMessage is called with
Roles == {"user", "assistant"}

Contents == { trim(t) : t \in RawTexts } \cup VoiceAssistantTexts

\* C21: the dedup looks at the last turn only: in every reachable transcript,
\* appendMessage adds one turn whenever the last turn differs in role or in
\* content, also when an identical turn stands earlier in the transcript, and
\* returns the transcript unchanged otherwise.
C21_DedupLastTurnOnly ==
    \A role \in Roles : \A content \in Contents :
        IF LastIs(messages, role, content)
        THEN appendMessage(messages, role, content) = messages
        ELSE appendMessage(messages, role, content) =
                Append(messages, [role |-> role, content |-> content])

\* a send has appended its user turn although the same user turn stands
\* earlier in the transcript
C21_Witness ==
    /\ lastOp.op = "sendText"
    /\ ~lastOp.noop
    /\ Last(messages) = [role |-> "user", content |-> trim(lastOp.text)]
    /\ \E i \in 1..(Len(messages) - 2) : messages[i] = Last(messages)

\* ---------------------------------------------------------------------------
\* the position of the user turn of call d: the turn appended at acceptance,
\* or the last turn of the acceptance transcript when the dedup kept it
UserPos(d) ==
    IF LastIs(calls[d].before, "user", calls[d].message)
    THEN Len(calls[d].before)
    ELSE Len(calls[d].before) + 1

\* C22: turns stand in the order in which they were accepted.  A voice
\* assistant utterance accepted while a dispatch is in flight is appended
\* after the user turn of that dispatch, and the assistant turn of the
\* dispatch is appended at its completion after every turn accepted before,
\* so the user turn precedes it and the utterance lies between the two.
\* Violated: the failure turn is not appended when the utterance accepted in
\* flight has the content of the failure turn (the defect of C3).
C22_AcceptanceOrder ==
    [][/\ \A d \in Settling :
            /\ messages[UserPos(d)] = UserTurn(d)
            /\ IsPrefix(messages, messages')
            /\ Len(messages') = Len(messages) + 1
            /\ Last(messages').role = "assistant"
       /\ lastOp'.op = "voiceAssistant" /\ ~lastOp'.noop =>
            /\ messages' = Append(messages, [role |-> "assistant",
                                             content |-> lastOp'.text])
            /\ \A d \in InFlight :
                  /\ UserPos(d) < Len(messages')
                  /\ messages'[UserPos(d)] = UserTurn(d)]_vars

\* ---------------------------------------------------------------------------
\* C23: the steps of an accepted dispatch occur in the order gate acquired,
\* user turn appended, collaborator called, assistant turn appended, gate
\* released: the user turn of every call is in the transcript, the gate is
\* held for as long as the call is pending, and a call that is no longer
\* pending has an assistant turn after its user turn.  Violated: the effect
\* that copies the rendered loading state releases the gate while a call is
\* pending (the defect of C19).
C23_DispatchStepOrder ==
    \A d \in 1..Len(calls) :
        /\ messages[UserPos(d)] = UserTurn(d)
        /\ calls[d].status = "pending" => loadingRef
        /\ calls[d].status # "pending" =>
              \E i \in (UserPos(d) + 1)..Len(messages) :
                  messages[i].role = "assistant"

\* ---------------------------------------------------------------------------
\* the positions of the turns that carry sources
WithSources == { i \in 1..Len(messages) : "sources" \in DOMAIN messages[i] }

\* C24: only the assistant turns made by a successful call carry sources:
\* the greeting and the user turns carry none, every turn with sources is an
\* assistant turn with the response and the sources of a resolved call and
\* stands after that call's user turn, and there are as many such turns as
\* resolved calls, so no voice assistant turn and no failure turn is among
\* them.
C24_SourcesOnlyOnReplies ==
    /\ 1 \notin WithSources
    /\ \A i \in WithSources :
          /\ messages[i].role = "assistant"
          /\ \E d \in 1..Len(calls) :
                /\ calls[d].status = "resolved"
                /\ i > UserPos(d)
                /\ messages[i].content = calls[d].result[1].response
                /\ messages[i].sources = calls[d].result[1].sources
    /\ Cardinality(WithSources) =
          Cardinality({ d \in 1..Len(calls) : calls[d].status = "resolved" })

\* the transcript holds a voice assistant turn without sources, then the
\* reply of the same content with its sources, and ends with a failure turn
\* without sources
C24_Witness ==
    /\ lastOp.op = "reject"
    /\ Last(messages) = [role |-> "assistant", content |-> FAILURE_TEXT]
    /\ \E i \in WithSources :
          /\ messages[i].sources # <<>>
          /\ messages[i - 1] =
                [role |-> "assistant", content |-> messages[i].content]

\* ---------------------------------------------------------------------------
\* C25: a send that returns early, because its text is blank after trimming
\* or because the gate is held, leaves the gate, the transcript and the typed
\* text as they are and makes no call; a send dropped while the gate is held
\* leaves the gate held.
C25_EarlyReturnKeepsState ==
    [][/\ lastOp'.op \in {"sendText", "voiceUser"}
       /\ trim(lastOp'.text) = <<>> \/ loadingRef
       => /\ loadingRef' = loadingRef
          /\ loadingNext' = loadingNext
          /\ messages' = messages
          /\ input' = input
          /\ calls' = calls]_vars

\* a typed send with text was dropped while a call was pending: the gate is
\* still held and the typed text is still in the input box
C25_Witness ==
    /\ lastOp.op = "sendText"
    /\ lastOp.noop
    /\ trim(lastOp.text) # <<>>
    /\ input = lastOp.text
    /\ loadingRef
    /\ InFlight # {}

\* ---------------------------------------------------------------------------
\* C26: the transcript is never empty and starts with the greeting; whenever
\* no call is pending its last turn is an assistant turn; and the acceptance
\* of a dispatch always appends the user turn, the dedup never keeping it
\* out.  Violated: a send accepted while a call with the same text is pending
\* (the gate released by the effect, the defect of C19) finds its own user
\* turn as the last turn and appends nothing.
C26_UserTurnNeverSuppressed ==
    [][/\ Len(messages) >= 1
       /\ messages[1] = [role |-> "assistant", content |-> GREETING]
       /\ InFlight = {} => Last(messages).role = "assistant"
       /\ Accepted =>
            /\ Last(messages).role = "assistant"
            /\ messages' = Append(messages, [role |-> "user",
                                             content |-> Last(calls').message])]_vars

\* ---------------------------------------------------------------------------
\* C27: for every accepted dispatch the message given to the collaborator and
\* the content of the user turn are one value, the text of the send with its
\* leading and trailing whitespace removed, and it is not empty; every user
\* turn of the transcript has non-empty content without surrounding
\* whitespace.
C27_UserTurnIsTrimmedMessage ==
    [][/\ Accepted =>
            LET m == Last(calls').message IN
            /\ m = trim(lastOp'.text)
            /\ m # <<>>
            /\ LastIs(messages', "user", m)
       /\ \A i \in 1..Len(messages') :
            messages'[i].role = "user" =>
                /\ messages'[i].content # <<>>
                /\ messages'[i].content = trim(messages'[i].content)]_vars

\* a voice user utterance with surrounding whitespace was accepted: the call
\* and the user turn both hold the trimmed text
C27_Witness ==
    /\ lastOp.op = "voiceUser"
    /\ ~lastOp.noop
    /\ lastOp.text = <<Space, "a", Space>>
    /\ Last(calls).message = <<"a">>
    /\ Last(calls).status = "pending"
    /\ Last(messages) = [role |-> "user", content |-> <<"a">>]

\* ---------------------------------------------------------------------------
\* C28: a press of the voice toggle is a stopVoice exactly when the status is
\* connecting or ready, and a startVoice exactly when it is idle or error:
\* in every reachable state the press does what the one does and not what the
\* other does, and a press taken from connecting or ready has left the
\* session idle, one taken from idle or error has left it connecting with the
\* session token.
C28_ToggleStopsIffActive ==
    /\ voiceStatus \in {"connecting", "ready"} =>
          /\ toggleVoice(voice, sessionId) = stopVoice(voice)
          /\ toggleVoice(voice, sessionId) # startVoice(voice, sessionId)
    /\ voiceStatus \in {"idle", "error"} =>
          /\ toggleVoice(voice, sessionId) = startVoice(voice, sessionId)
          /\ toggleVoice(voice, sessionId) # stopVoice(voice)
    /\ lastOp.op = "toggleVoice" =>
          /\ ~lastOp.noop
          /\ IF lastOp.text[1] \in {"connecting", "ready"}
             THEN voiceStatus = "idle"
             ELSE voiceStatus = "connecting" /\ voiceSession = sessionId

\* a press taken while the status was error has started the session again
C28_Witness ==
    /\ lastOp.op = "toggleVoice"
    /\ lastOp.text = <<"error">>
    /\ voiceStatus = "connecting"
    /\ voiceError = NoError

====
